---- MODULE Spec2Model ----
(***************************************************************************)
(* Clinical Change Tracker (streamlit_app.py).                             *)
(*                                                                         *)
(* Strings are sequences of one-character strings, so that strip, lower,   *)
(* splitlines, join, html.escape and the regular expressions of the source *)
(* are computed character by character.                                    *)
(*                                                                         *)
(* Six specifications  share the variables:                                *)
(*   Spec        the page: widgets, the Run action, the remote call        *)
(*   SpecSplit   the Run action from the remote call on, for longer remote *)
(*               responses                                                 *)
(*   SpecRender  the Run action from the remote call on, for every         *)
(*               selection of the filters                                  *)
(*   SpecHL      highlight_text and count_hits on bounded texts/queries    *)
(*   SpecPdf     brief_to_pdf_bytes on bounded texts                       *)
(*   SpecAlias   the Run action from the remote call on, for responses     *)
(*               whose headings are the aliases of SECTION_KEYS            *)
(***************************************************************************)
EXTENDS Integers, Sequences, FiniteSets, TLC

VARIABLES
    mode, choice, note_a, note_b,
    f_meds, f_orders, f_ptot, f_cm, f_brief,
    run_btn, warning, remote_calls, pc,
    output_md, sections, final_text,
    search_text, search_query, hits, highlighted, hl_pc,
    pdf_text, pdf_drawn, pdf_pc

noteVars == <<mode, choice, note_a, note_b>>
filterVars == <<f_meds, f_orders, f_ptot, f_cm, f_brief>>
runVars == <<run_btn, warning, remote_calls, pc, output_md, sections, final_text>>
hlVars == <<search_text, search_query, hits, highlighted, hl_pc>>
pdfVars == <<pdf_text, pdf_drawn, pdf_pc>>
vars == <<noteVars, filterVars, runVars, hlVars, pdfVars>>

(***************************************************************************)
(* Bounds of the model.                                                    *)
(***************************************************************************)
\* lines of a remote response in Spec
MaxRespLines == 2
\* lines of a remote response in SpecSplit
MaxDocLines == 4
\* lines of a remote response in SpecRender
MaxRenderLines == 4
\* characters of a searched text and of a query in SpecHL
MaxTextLen == 2
MaxQueryLen == 4
\* characters of a text rendered to PDF in SpecPdf
MaxPdfLen == 6
\* lines of a remote response in SpecAlias
MaxAliasLines == 1
\* the page, in tenths of a point: letter is 6120 by 7920; a page this small
\* makes short texts wrap and break pages
width == 1640
height == 1860

(***************************************************************************)
(* Python string primitives.                                               *)
(***************************************************************************)
\* str.isspace for the characters of the model
IsSpace(c) == c \in {" ", "\n", "\t", "\r"}

\* str.lower, one character
LowerChar(c) ==
    CASE c = "A" -> "a" [] c = "B" -> "b" [] c = "C" -> "c" [] c = "D" -> "d"
      [] c = "E" -> "e" [] c = "F" -> "f" [] c = "G" -> "g" [] c = "H" -> "h"
      [] c = "I" -> "i" [] c = "J" -> "j" [] c = "K" -> "k" [] c = "L" -> "l"
      [] c = "M" -> "m" [] c = "N" -> "n" [] c = "O" -> "o" [] c = "P" -> "p"
      [] c = "Q" -> "q" [] c = "R" -> "r" [] c = "S" -> "s" [] c = "T" -> "t"
      [] c = "U" -> "u" [] c = "V" -> "v" [] c = "W" -> "w" [] c = "X" -> "x"
      [] c = "Y" -> "y" [] c = "Z" -> "z" [] OTHER -> c

\* str.lower
Lower(s) == [i \in 1..Len(s) |-> LowerChar(s[i])]

RECURSIVE LStrip(_)
LStrip(s) == IF s # <<>> /\ IsSpace(Head(s)) THEN LStrip(Tail(s)) ELSE s

RECURSIVE RStrip(_)
RStrip(s) ==
    IF s # <<>> /\ IsSpace(s[Len(s)]) THEN RStrip(SubSeq(s, 1, Len(s) - 1)) ELSE s

\* str.strip()
Strip(s) == RStrip(LStrip(s))

\* s.startswith(p)
StartsWith(s, p) == Len(p) <= Len(s) /\ SubSeq(s, 1, Len(p)) = p

\* a in h (substring test)
Contains(h, a) ==
    \E i \in 0..(Len(h) - Len(a)) : SubSeq(h, i + 1, i + Len(a)) = a

\* sep.join(parts)
RECURSIVE Join(_, _)
Join(parts, sep) ==
    IF parts = <<>> THEN <<>>
    ELSE IF Len(parts) = 1 THEN parts[1]
    ELSE parts[1] \o sep \o Join(Tail(parts), sep)

\* the pieces of s between occurrences of the character sep (s.split(sep))
RECURSIVE SplitOn(_, _, _)
SplitOn(s, sep, cur) ==
    IF s = <<>> THEN <<cur>>
    ELSE IF Head(s) = sep THEN <<cur>> \o SplitOn(Tail(s), sep, <<>>)
    ELSE SplitOn(Tail(s), sep, Append(cur, Head(s)))

\* str.splitlines(): split at line breaks; a final line break opens no new line
splitlines(s) ==
    LET parts == SplitOn(s, "\n", <<>>)
    IN  IF parts[Len(parts)] = <<>> THEN SubSeq(parts, 1, Len(parts) - 1) ELSE parts

(***************************************************************************)
(* Section splitter.                                                       *)
(***************************************************************************)
Categories == {"meds", "orders", "ptot", "cm", "brief"}

\* Python's None for current_key
None == "<None>"

SECTION_KEYS == <<
    [key |-> "meds", aliases |-> <<
        <<"m","e","d","i","c","a","t","i","o","n","s">>,
        <<"m","e","d"," ","c","h","a","n","g","e","s">>,
        <<"m","e","d","i","c","a","t","i","o","n"," ","c","h","a","n","g","e","s">>
    >>],
    [key |-> "orders", aliases |-> <<
        <<"o","r","d","e","r","s"," ","&"," ","p","l","a","n">>,
        <<"o","r","d","e","r","s","/","p","l","a","n">>,
        <<"p","l","a","n"," ","c","h","a","n","g","e","s">>,
        <<"o","r","d","e","r","s">>,
        <<"p","l","a","n">>
    >>],
    [key |-> "ptot", aliases |-> <<
        <<"p","t","/","o","t">>,
        <<"r","e","h","a","b">>,
        <<"t","h","e","r","a","p","y">>
    >>],
    [key |-> "cm", aliases |-> <<
        <<"c","a","s","e"," ","m","a","n","a","g","e","m","e","n","t">>,
        <<"d","i","s","p","o","s","i","t","i","o","n">>,
        <<"d","i","s","c","h","a","r","g","e"," ","p","l","a","n">>
    >>],
    [key |-> "brief", aliases |-> <<
        <<"r","o","l","e"," ","b","r","i","e","f">>,
        <<"n","u","r","s","i","n","g"," ","b","r","i","e","f">>,
        <<"c","l","i","n","i","c","i","a","n"," ","b","r","i","e","f">>,
        <<"s","u","m","m","a","r","y"," ","b","r","i","e","f">>
    >>]
>>

\* the scan of normalize_key from category i, alias j on: first match wins
RECURSIVE ScanKeys(_, _, _)
ScanKeys(h, i, j) ==
    IF i > Len(SECTION_KEYS) THEN ""
    ELSE IF j > Len(SECTION_KEYS[i].aliases) THEN ScanKeys(h, i + 1, 1)
    ELSE IF Contains(h, SECTION_KEYS[i].aliases[j]) THEN SECTION_KEYS[i].key
    ELSE ScanKeys(h, i, j + 1)

normalize_key(hdr) == ScanKeys(Lower(Strip(hdr)), 1, 1)

\* the number of leading "#" of a line
RECURSIVE HashRun(_)
HashRun(line) ==
    IF line # <<>> /\ Head(line) = "#" THEN 1 + HashRun(Tail(line)) ELSE 0

\* re.match(r"^#{2,3}\s+(.*)$", line): two or three "#", then white space
HeadingMatch(line) ==
    /\ HashRun(line) \in {2, 3}
    /\ Len(line) > HashRun(line)
    /\ IsSpace(line[HashRun(line) + 1])

\* m.group(1): what follows the white space after the "#"s
HeadingText(line) == LStrip(SubSeq(line, HashRun(line) + 1, Len(line)))

\* sections[current_key] = "\n".join(buf).strip()
Flush(st) ==
    LET body == Strip(Join(st.buf, <<"\n">>))
    IN  [st EXCEPT
            !.sections = [k \in DOMAIN st.sections \cup {st.current_key} |->
                            IF k = st.current_key THEN body ELSE st.sections[k]]]

\* one iteration of the loop over the lines
SplitStep(st, line) ==
    IF StartsWith(line, <<"#">>)
    THEN LET flushed == IF st.current_key # None
                        THEN [Flush(st) EXCEPT !.buf = <<>>]
                        ELSE st
             k == IF HeadingMatch(line) THEN normalize_key(HeadingText(line)) ELSE ""
         IN  [flushed EXCEPT !.current_key = IF k # "" THEN k ELSE None]
    ELSE [st EXCEPT !.buf = Append(st.buf, line)]

RECURSIVE SplitLoop(_, _)
SplitLoop(lines, st) ==
    IF lines = <<>> THEN st ELSE SplitLoop(Tail(lines), SplitStep(st, Head(lines)))

\* split_sections with the dict created with every category mapped to ""
split_sections_prefilled(markdown_text) ==
    LET st == SplitLoop(splitlines(markdown_text),
                        [sections |-> [k \in Categories |-> <<>>],
                         current_key |-> None, buf |-> <<>>])
    IN  IF st.current_key # None THEN Flush(st).sections ELSE st.sections

\* the dict returned for a document, a function from the keys found to bodies
split_sections(markdown_text) ==
    LET st == SplitLoop(splitlines(markdown_text),
                        [sections |-> <<>>, current_key |-> None, buf |-> <<>>])
    IN  IF st.current_key # None THEN Flush(st).sections ELSE st.sections

(***************************************************************************)
(* Filtered reassembly of the Run action.                                  *)
(***************************************************************************)
\* the five lines with those of Role Brief and Medications exchanged
DisplayOrder_exchanged == <<"brief", "orders", "ptot", "cm", "meds">>

\* the order of the five "if f_x and sections.get(x)" lines, with the headings
DisplayOrder == <<"meds", "orders", "ptot", "cm", "brief">>

CanonicalHeading(k) ==
    CASE k = "meds" -> <<"#","#"," ","M","e","d","i","c","a","t","i","o","n","s">>
      [] k = "orders" -> <<"#","#"," ","O","r","d","e","r","s"," ","&"," ","P","l","a","n">>
      [] k = "ptot" -> <<"#","#"," ","P","T","/","O","T">>
      [] k = "cm" -> <<"#","#"," ","C","a","s","e"," ","M","a","n","a","g","e","m","e","n","t",
                       " ","/"," ","D","i","s","p","o","s","i","t","i","o","n">>
      [] k = "brief" -> <<"#","#"," ","R","o","l","e"," ","B","r","i","e","f">>

\* f_x and sections.get(x): the box is ticked and the body exists and is not ""
Takes(f, secs, k) == f[k] /\ k \in DOMAIN secs /\ secs[k] # <<>>

\* collected: one "heading\nbody" per taken category, in the order of the lines
RECURSIVE Collect(_, _, _)
Collect(f, secs, i) ==
    IF i > Len(DisplayOrder) THEN <<>>
    ELSE (IF Takes(f, secs, DisplayOrder[i])
          THEN <<CanonicalHeading(DisplayOrder[i]) \o <<"\n">> \o secs[DisplayOrder[i]]>>
          ELSE <<>>) \o Collect(f, secs, i + 1)

collected(f, secs) == Collect(f, secs, 1)

\* final_text = "\n\n".join(collected).strip() or output_md
FinalText(f, secs, md) ==
    LET joined == Strip(Join(collected(f, secs), <<"\n", "\n">>))
    IN  IF joined # <<>> THEN joined ELSE md

(***************************************************************************)
(* The page.                                                               *)
(***************************************************************************)
Compare == "Compare two notes"
Single == "Single note"

\* EXAMPLES, the note texts abstracted to their names; the four other pairs are,
\* like the first, two non-empty texts
EXAMPLES == <<
    <<"Med change + PT/OT + DME: yesterday", "Med change + PT/OT + DME: today">>,
    <<"SINGLE NOTE: Messy hospitalist note", "">>
>>

\* the example commented "use with Single note mode"
SingleExample == Len(EXAMPLES)

\* example_names: index 0 is "-- Select example notes --"
ExampleChoices == 0..Len(EXAMPLES)

\* what the user may type into a text area
TypedNotes == {"", "typed note"}

\* the value= of the text areas for a mode and a choice: <<note_a, note_b>>
Defaults(m, c) ==
    IF m = Compare
    THEN IF c # 0 THEN <<EXAMPLES[c][1], EXAMPLES[c][2]>> ELSE <<"", "">>
    ELSE <<"", IF c # 0 THEN EXAMPLES[c][2] ELSE "">>

\* the filter check boxes as a function of the category
Filters == [meds |-> f_meds, orders |-> f_orders, ptot |-> f_ptot,
            cm |-> f_cm, brief |-> f_brief]

\* lines a remote response is made of
LinePool == {
    <<"#","#"," ","M","e","d","i","c","a","t","i","o","n","s">>,
    <<"#","#"," ","R","o","l","e"," ","B","r","i","e","f">>,
    <<"#","#","#"," ","P","l","a","n">>,
    <<"#","#"," ","N","o","t","e","s">>,
    <<"#","x">>,
    <<"x">>,
    <<" ","#","x">>,
    <<>>
}

\* the lines of LinePool that SpecRender, which multiplies them by the filters, uses
RenderPool == {
    <<"#","#"," ","M","e","d","i","c","a","t","i","o","n","s">>,
    <<"#","#","#"," ","P","l","a","n">>,
    <<"#","#"," ","N","o","t","e","s">>,
    <<"x">>,
    <<" ","#","x">>,
    <<>>
}

\* resp.choices[0].message.content.strip() for responses of at most n lines
Responses(pool, n) ==
    { Strip(Join(ls, <<"\n">>)) : ls \in UNION { [1..m -> pool] : m \in 0..n } }

WarnCompare == "Paste text into both boxes first or load an example."
WarnSingle == "Paste a note first or load an example."

\* the precondition with "or" for "and" between the two notes
InputOk_either ==
    IF mode = Compare THEN note_a # "" \/ note_b # "" ELSE note_b # ""

\* the input precondition of the Run action for the mode
InputOk ==
    IF mode = Compare THEN note_a # "" /\ note_b # "" ELSE note_b # ""

\* a script run without the Run button: no warning, no call, no summary
NoRun ==
    /\ run_btn' = FALSE
    /\ warning' = ""
    /\ remote_calls' = 0
    /\ pc' = "Collecting"
    /\ output_md' = <<>>
    /\ sections' = <<>>
    /\ final_text' = <<>>

Interactive == pc \in {"Collecting", "Rendering"}

SetMode(m) ==
    /\ Interactive
    /\ m # mode
    /\ mode' = m
    /\ note_a' = Defaults(m, choice)[1]
    /\ note_b' = Defaults(m, choice)[2]
    /\ NoRun
    /\ UNCHANGED <<choice, filterVars, hlVars, pdfVars>>

SelectExample(c) ==
    /\ Interactive
    /\ c # choice
    /\ choice' = c
    /\ note_a' = Defaults(mode, c)[1]
    /\ note_b' = Defaults(mode, c)[2]
    /\ NoRun
    /\ UNCHANGED <<mode, filterVars, hlVars, pdfVars>>

EditNoteA(t) ==
    /\ Interactive
    /\ mode = Compare
    /\ t # note_a
    /\ note_a' = t
    /\ NoRun
    /\ UNCHANGED <<mode, choice, note_b, filterVars, hlVars, pdfVars>>

EditNoteB(t) ==
    /\ Interactive
    /\ t # note_b
    /\ note_b' = t
    /\ NoRun
    /\ UNCHANGED <<mode, choice, note_a, filterVars, hlVars, pdfVars>>

ToggleFilter(k) ==
    /\ Interactive
    /\ f_meds' = IF k = "meds" THEN ~f_meds ELSE f_meds
    /\ f_orders' = IF k = "orders" THEN ~f_orders ELSE f_orders
    /\ f_ptot' = IF k = "ptot" THEN ~f_ptot ELSE f_ptot
    /\ f_cm' = IF k = "cm" THEN ~f_cm ELSE f_cm
    /\ f_brief' = IF k = "brief" THEN ~f_brief ELSE f_brief
    /\ NoRun
    /\ UNCHANGED <<noteVars, hlVars, pdfVars>>

\* "if run_btn:" up to the remote call: the warning and st.stop(), or the call
Run ==
    /\ Interactive
    /\ run_btn' = TRUE
    /\ IF InputOk
       THEN /\ warning' = ""
            /\ remote_calls' = 1
            /\ pc' = "Awaiting"
       ELSE /\ warning' = IF mode = Compare THEN WarnCompare ELSE WarnSingle
            /\ remote_calls' = 0
            /\ pc' = "Collecting"
    /\ output_md' = <<>>
    /\ sections' = <<>>
    /\ final_text' = <<>>
    /\ UNCHANGED <<noteVars, filterVars, hlVars, pdfVars>>

\* the remote call returns r: split, reassemble the selected sections, display
RemoteReturn(pool, n) ==
    /\ pc = "Awaiting"
    /\ \E r \in Responses(pool, n) :
        LET secs == split_sections(r)
        IN  /\ output_md' = r
            /\ sections' = secs
            /\ final_text' = FinalText(Filters, secs, r)
    /\ pc' = "Rendering"
    /\ UNCHANGED <<noteVars, filterVars, run_btn, warning, remote_calls, hlVars, pdfVars>>

(***************************************************************************)
(* Text highlighter.                                                       *)
(***************************************************************************)
\* the replacement of one character by html.escape (quote=True)
EscapeChar(c) ==
    CASE c = "&" -> <<"&", "a", "m", "p", ";">>
      [] c = "<" -> <<"&", "l", "t", ";">>
      [] c = ">" -> <<"&", "g", "t", ";">>
      [] c = "\"" -> <<"&", "q", "u", "o", "t", ";">>
      [] c = "'" -> <<"&", "#", "x", "2", "7", ";">>
      [] OTHER -> <<c>>

\* html.escape(text)
RECURSIVE escape(_)
escape(text) ==
    IF text = <<>> THEN <<>> ELSE EscapeChar(Head(text)) \o escape(Tail(text))

\* a character \w matches
IsWordChar(c) ==
    c \in {"a","b","c","d","e","f","g","h","i","j","k","l","m",
           "n","o","p","q","r","s","t","u","v","w","x","y","z",
           "A","B","C","D","E","F","G","H","I","J","K","L","M",
           "N","O","P","Q","R","S","T","U","V","W","X","Y","Z",
           "0","1","2","3","4","5","6","7","8","9","_"}

\* re.findall(r"\w+", query): the maximal runs of word characters, in order
RECURSIVE FindWords(_, _)
FindWords(query, cur) ==
    IF query = <<>> THEN (IF cur = <<>> THEN <<>> ELSE <<cur>>)
    ELSE IF IsWordChar(Head(query)) THEN FindWords(Tail(query), Append(cur, Head(query)))
    ELSE (IF cur = <<>> THEN <<>> ELSE <<cur>>) \o FindWords(Tail(query), <<>>)

\* tokens: re.escape leaves a run of word characters as it is
QueryTokens(query) == FindWords(query, <<>>)

\* the length of the match of (tok1|tok2|...) at position i of s under re.I:
\* that of the first alternative that matches there, 0 if none does
RECURSIVE MatchAt(_, _, _, _)
MatchAt(s, i, tokens, t) ==
    IF t > Len(tokens) THEN 0
    ELSE IF /\ i + Len(tokens[t]) - 1 <= Len(s)
            /\ Lower(SubSeq(s, i, i + Len(tokens[t]) - 1)) = Lower(tokens[t])
         THEN Len(tokens[t])
         ELSE MatchAt(s, i, tokens, t + 1)

MarkOpen == "<span class=\"marked\">"
MarkClose == "</span>"

\* pattern.sub(lambda m: '<span class="marked">' + m.group(0) + '</span>', s)
\* from position i on: matches are taken left to right and do not overlap
RECURSIVE SubMarked(_, _, _)
SubMarked(s, i, tokens) ==
    IF i > Len(s) THEN <<>>
    ELSE LET n == MatchAt(s, i, tokens, 1)
         IN  IF n > 0
             THEN <<MarkOpen>> \o SubSeq(s, i, i + n - 1) \o <<MarkClose>>
                    \o SubMarked(s, i + n, tokens)
             ELSE <<s[i]>> \o SubMarked(s, i + 1, tokens)

\* len(pattern.findall(s)) from position i on
RECURSIVE CountMatches(_, _, _)
CountMatches(s, i, tokens) ==
    IF i > Len(s) THEN 0
    ELSE LET n == MatchAt(s, i, tokens, 1)
         IN  IF n > 0 THEN 1 + CountMatches(s, i + n, tokens)
             ELSE CountMatches(s, i + 1, tokens)

\* highlight_text with the text of the early returns not escaped
highlight_text_raw(text, query) ==
    IF text = <<>> \/ Strip(query) = <<>>
    THEN <<"<pre>">> \o text \o <<"</pre>">>
    ELSE IF QueryTokens(query) = <<>>
    THEN <<"<pre>">> \o text \o <<"</pre>">>
    ELSE <<"<pre>">> \o SubMarked(escape(text), 1, QueryTokens(query)) \o <<"</pre>">>

\* the result is a sequence of characters and of the four tags, each tag one
\* element (escaped text holds no "<", so a tag is never part of the text)
highlight_text(text, query) ==
    IF text = <<>> \/ Strip(query) = <<>>
    THEN <<"<pre>">> \o escape(text) \o <<"</pre>">>
    ELSE IF QueryTokens(query) = <<>>
    THEN <<"<pre>">> \o escape(text) \o <<"</pre>">>
    ELSE <<"<pre>">> \o SubMarked(escape(text), 1, QueryTokens(query)) \o <<"</pre>">>

count_hits(text, query) ==
    IF text = <<>> \/ Strip(query) = <<>> THEN 0
    ELSE IF QueryTokens(query) = <<>> THEN 0
    ELSE CountMatches(text, 1, QueryTokens(query))

\* characters of the searched texts and of the queries
TextAlphabet == {"a", "A", "m", "&"}
QueryAlphabet == {"a", "m", " ", "&"}

\* the strings over an alphabet of at most n characters
StringsUpTo(alphabet, n) == UNION { [1..m -> alphabet] : m \in 0..n }

\* the two functions applied to the text and the query (the page shows both
\* results side by side)
Highlight ==
    /\ hl_pc = "input"
    /\ hits' = count_hits(search_text, search_query)
    /\ highlighted' = highlight_text(search_text, search_query)
    /\ hl_pc' = "shown"
    /\ UNCHANGED <<search_text, search_query, noteVars, filterVars, runVars, pdfVars>>

(***************************************************************************)
(* PDF page renderer.  Lengths are in tenths of a point.                   *)
(***************************************************************************)
\* reportlab.lib.units.inch
inch == 720

\* the line step, 14 points
LineStep == 140

\* max_width = width - 2 * inch
max_width == width - 2 * inch

\* Helvetica at 10 points: the advance of a glyph
GlyphWidth(ch) ==
    CASE ch = " " -> 28
      [] ch = "W" -> 94
      [] OTHER -> 56

\* c.stringWidth(s, "Helvetica", 10)
RECURSIVE stringWidth(_)
stringWidth(s) == IF s = <<>> THEN 0 ELSE GlyphWidth(Head(s)) + stringWidth(Tail(s))

\* c.drawString(1 * inch, y, text); y -= 14; a new page when y < 1 * inch
DrawLine(st, text) ==
    LET drawn == Append(st.drawn, [page |-> st.page, y |-> st.y, text |-> text])
        y == st.y - LineStep
    IN  IF y < inch
        THEN [st EXCEPT !.drawn = drawn, !.page = st.page + 1, !.y = height - inch]
        ELSE [st EXCEPT !.drawn = drawn, !.y = y]

\* the loop body with the word that overflows dropped (current = "")
WordStep_dropped(st, w) ==
    LET test == Strip(st.current \o <<" ">> \o w)
    IN  IF stringWidth(test) > max_width
        THEN [DrawLine(st, st.current) EXCEPT !.current = <<>>]
        ELSE [st EXCEPT !.current = test]

\* the body of "for w in words"
WordStep(st, w) ==
    LET test == Strip(st.current \o <<" ">> \o w)
    IN  IF stringWidth(test) > max_width
        THEN [DrawLine(st, st.current) EXCEPT !.current = w]
        ELSE [st EXCEPT !.current = test]

RECURSIVE WordLoop(_, _)
WordLoop(words, st) ==
    IF words = <<>> THEN st ELSE WordLoop(Tail(words), WordStep(st, Head(words)))

\* the body of "for line in ...": the words of the line, then what is left
LineStepPdf(st, line) ==
    LET after == WordLoop(SplitOn(line, " ", <<>>), [st EXCEPT !.current = <<>>])
    IN  IF after.current # <<>> THEN DrawLine(after, after.current) ELSE after

RECURSIVE LineLoop(_, _)
LineLoop(lines, st) ==
    IF lines = <<>> THEN st ELSE LineLoop(Tail(lines), LineStepPdf(st, Head(lines)))

\* the lines of text drawn, in the order drawn, each with its page and its y
\* (the title, drawn once above them, is not one of them)
brief_to_pdf_bytes(markdown_text) ==
    LineLoop(splitlines(markdown_text),
             [drawn |-> <<>>, page |-> 1, y |-> height - (13 * inch) \div 10,
              current |-> <<>>]).drawn

PdfAlphabet == {"a", "W", " ", "\n"}

RenderPdf ==
    /\ pdf_pc = "input"
    /\ pdf_drawn' = brief_to_pdf_bytes(pdf_text)
    /\ pdf_pc' = "done"
    /\ UNCHANGED <<pdf_text, noteVars, filterVars, runVars, hlVars>>

HlIdle ==
    /\ search_text = <<>>
    /\ search_query = <<>>
    /\ hits = 0
    /\ highlighted = <<>>
    /\ hl_pc = "off"

PdfIdle ==
    /\ pdf_text = <<>>
    /\ pdf_drawn = <<>>
    /\ pdf_pc = "off"

Init ==
    /\ mode = Compare
    /\ choice = 0
    /\ note_a = ""
    /\ note_b = ""
    /\ f_meds = TRUE
    /\ f_orders = TRUE
    /\ f_ptot = TRUE
    /\ f_cm = TRUE
    /\ f_brief = TRUE
    /\ run_btn = FALSE
    /\ warning = ""
    /\ remote_calls = 0
    /\ pc = "Collecting"
    /\ output_md = <<>>
    /\ sections = <<>>
    /\ final_text = <<>>
    /\ HlIdle
    /\ PdfIdle

Next ==
    \/ \E m \in {Compare, Single} : SetMode(m)
    \/ \E c \in ExampleChoices : SelectExample(c)
    \/ \E t \in TypedNotes : EditNoteA(t)
    \/ \E t \in TypedNotes : EditNoteB(t)
    \/ \E k \in Categories : ToggleFilter(k)
    \/ Run
    \/ RemoteReturn(LinePool, MaxRespLines)

Spec == Init /\ [][Next]_vars

\* Run was pressed with the input present: the remote call is under way
Awaiting ==
    /\ choice = 0
    /\ note_a = IF mode = Compare THEN "typed note" ELSE ""
    /\ note_b = "typed note"
    /\ run_btn = TRUE
    /\ warning = ""
    /\ remote_calls = 1
    /\ pc = "Awaiting"
    /\ output_md = <<>>
    /\ sections = <<>>
    /\ final_text = <<>>
    /\ HlIdle
    /\ PdfIdle

\* either mode, the filters as the page loads them
InitSplit ==
    /\ mode \in {Compare, Single}
    /\ f_meds = TRUE
    /\ f_orders = TRUE
    /\ f_ptot = TRUE
    /\ f_cm = TRUE
    /\ f_brief = TRUE
    /\ Awaiting

NextSplit == RemoteReturn(LinePool, MaxDocLines)

SpecSplit == InitSplit /\ [][NextSplit]_vars

\* any selection of the filters
InitRender ==
    /\ mode = Compare
    /\ f_meds \in BOOLEAN
    /\ f_orders \in BOOLEAN
    /\ f_ptot \in BOOLEAN
    /\ f_cm \in BOOLEAN
    /\ f_brief \in BOOLEAN
    /\ Awaiting

NextRender == RemoteReturn(RenderPool, MaxRenderLines)

SpecRender == InitRender /\ [][NextRender]_vars

InitHL ==
    /\ mode = Compare
    /\ choice = 0
    /\ note_a = ""
    /\ note_b = ""
    /\ f_meds = TRUE
    /\ f_orders = TRUE
    /\ f_ptot = TRUE
    /\ f_cm = TRUE
    /\ f_brief = TRUE
    /\ run_btn = FALSE
    /\ warning = ""
    /\ remote_calls = 0
    /\ pc = "Collecting"
    /\ output_md = <<>>
    /\ sections = <<>>
    /\ final_text = <<>>
    /\ search_text \in StringsUpTo(TextAlphabet, MaxTextLen)
    /\ search_query \in StringsUpTo(QueryAlphabet, MaxQueryLen)
    /\ hits = 0
    /\ highlighted = <<>>
    /\ hl_pc = "input"
    /\ PdfIdle

NextHL == Highlight

SpecHL == InitHL /\ [][NextHL]_vars

InitPdf ==
    /\ mode = Compare
    /\ choice = 0
    /\ note_a = ""
    /\ note_b = ""
    /\ f_meds = TRUE
    /\ f_orders = TRUE
    /\ f_ptot = TRUE
    /\ f_cm = TRUE
    /\ f_brief = TRUE
    /\ run_btn = FALSE
    /\ warning = ""
    /\ remote_calls = 0
    /\ pc = "Collecting"
    /\ output_md = <<>>
    /\ sections = <<>>
    /\ final_text = <<>>
    /\ HlIdle
    /\ pdf_text \in StringsUpTo(PdfAlphabet, MaxPdfLen)
    /\ pdf_drawn = <<>>
    /\ pdf_pc = "input"

NextPdf == RenderPdf

SpecPdf == InitPdf /\ [][NextPdf]_vars

\* str.upper, one character
UpperChar(c) ==
    CASE c = "a" -> "A" [] c = "b" -> "B" [] c = "c" -> "C" [] c = "d" -> "D"
      [] c = "e" -> "E" [] c = "f" -> "F" [] c = "g" -> "G" [] c = "h" -> "H"
      [] c = "i" -> "I" [] c = "j" -> "J" [] c = "k" -> "K" [] c = "l" -> "L"
      [] c = "m" -> "M" [] c = "n" -> "N" [] c = "o" -> "O" [] c = "p" -> "P"
      [] c = "q" -> "Q" [] c = "r" -> "R" [] c = "s" -> "S" [] c = "t" -> "T"
      [] c = "u" -> "U" [] c = "v" -> "V" [] c = "w" -> "W" [] c = "x" -> "X"
      [] c = "y" -> "Y" [] c = "z" -> "Z" [] OTHER -> c

\* an alias as a response may write it: as listed, in capitals, capitalized
CaseForms(a) ==
    { a,
      [i \in 1..Len(a) |-> UpperChar(a[i])],
      [i \in 1..Len(a) |-> IF i = 1 THEN UpperChar(a[i]) ELSE a[i]] }

\* the heading lines, of level 2 and 3, whose text is an alias of SECTION_KEYS,
\* and a line of body
AliasPool ==
    {<<"x">>} \cup
    UNION { UNION { { h \o <<" ">> \o f :
                        h \in {<<"#","#">>, <<"#","#","#">>},
                        f \in CaseForms(SECTION_KEYS[i].aliases[j]) } :
                    j \in 1..Len(SECTION_KEYS[i].aliases) } :
            i \in 1..Len(SECTION_KEYS) }

NextAlias == RemoteReturn(AliasPool, MaxAliasLines)

SpecAlias == InitSplit /\ [][NextAlias]_vars

(***************************************************************************)
(* Properties of the section splitter (SpecSplit).                         *)
(***************************************************************************)
\* a line that opens a section or closes the one before: it starts with "#"
IsHeadingLine(line) == StartsWith(line, <<"#">>)

\* the category a line is the heading of; "" for any other line, and for a
\* heading that is malformed or names no category
HeadingKey(line) ==
    IF IsHeadingLine(line) /\ HeadingMatch(line)
    THEN normalize_key(HeadingText(line))
    ELSE ""

\* the index of the last heading of category k among the lines, 0 if none
LastHeadingOf(lines, k) ==
    LET at == { i \in 1..Len(lines) : HeadingKey(lines[i]) = k }
    IN  IF at = {} THEN 0 ELSE CHOOSE i \in at : \A j \in at : j <= i

\* the index of the first heading line after line h, Len(lines) + 1 if none
NextHeadingAfter(lines, h) ==
    LET at == { i \in (h + 1)..Len(lines) : IsHeadingLine(lines[i]) }
    IN  IF at = {} THEN Len(lines) + 1 ELSE CHOOSE i \in at : \A j \in at : i <= j

\* the trimmed join of the lines between the heading of k and the next heading
OwnBody(lines, k) ==
    LET h == LastHeadingOf(lines, k)
    IN  Strip(Join(SubSeq(lines, h + 1, NextHeadingAfter(lines, h) - 1), <<"\n">>))

\* C1: the body stored for a category is the trimmed join of the non-heading
\* lines between that category's heading and the next heading line; no line
\* from before the first heading or from under an unrecognized or malformed
\* heading is part of a body.
C1_BodyIsOwnLines ==
    pc = "Rendering" =>
        \A k \in DOMAIN sections : sections[k] = OwnBody(splitlines(output_md), k)

\* C2: the keys of the returned map are recognized categories, and a category
\* none of whose headings occurs in the document is not a key of the map.
C2_OnlyFoundCategories ==
    pc = "Rendering" =>
        /\ DOMAIN sections \subseteq Categories
        /\ \A k \in Categories :
            (\A i \in 1..Len(splitlines(output_md)) :
                HeadingKey(splitlines(output_md)[i]) # k) => k \notin DOMAIN sections

\* C2 witness: Role Brief, then an unknown heading, then Medications: the map
\* holds those two categories and no other.
C2_Witness ==
    /\ pc = "Rendering"
    /\ DOMAIN sections = {"meds", "brief"}
    /\ LET lines == splitlines(output_md)
       IN  \E i, j, k \in 1..Len(lines) :
            /\ i < j /\ j < k
            /\ HeadingKey(lines[i]) = "brief"
            /\ HeadingMatch(lines[j]) /\ HeadingKey(lines[j]) = ""
            /\ HeadingKey(lines[k]) = "meds"

\* C12: a heading whose text is exactly an alias listed for a category, in any
\* letter case, is resolved to that category: its section is in the map.
C12_AliasResolvesToOwnCategory ==
    pc = "Rendering" =>
        LET lines == splitlines(output_md)
        IN  \A n \in 1..Len(lines) :
                \A i \in 1..Len(SECTION_KEYS) :
                    \A j \in 1..Len(SECTION_KEYS[i].aliases) :
                        (/\ HeadingMatch(lines[n])
                         /\ Lower(HeadingText(lines[n])) = SECTION_KEYS[i].aliases[j])
                            => SECTION_KEYS[i].key \in DOMAIN sections

(***************************************************************************)
(* Properties of the Run action (Spec).                                    *)
(***************************************************************************)
\* a note the mode needs is empty
MissingInput ==
    \/ mode = Single /\ note_b = ""
    \/ mode = Compare /\ (note_a = "" \/ note_b = "")

\* C4: Run with a note of the mode missing reports the warning, is back at
\* collecting input and has made no remote call; a remote call is made only
\* in a run whose precondition holds.
C4_RunValidation ==
    /\ (run_btn /\ MissingInput) =>
            /\ warning = (IF mode = Compare THEN WarnCompare ELSE WarnSingle)
            /\ pc = "Collecting"
            /\ remote_calls = 0
    /\ (remote_calls # 0 \/ pc \in {"Awaiting", "Rendering"}) =>
            /\ run_btn
            /\ ~MissingInput
            /\ warning = ""

\* C4 witness: Run in compare mode with yesterday's note only.
C4_Witness ==
    /\ run_btn
    /\ mode = Compare
    /\ note_a # ""
    /\ note_b = ""
    /\ warning = WarnCompare

(***************************************************************************)
(* Properties of the filtered reassembly (SpecRender).                     *)
(***************************************************************************)
\* C5: when a category was parsed, only selected sections are displayed: the
\* body of a category whose box is not ticked is not in the final text.
C5_DeselectedNeverShown ==
    (pc = "Rendering" /\ DOMAIN sections # {}) =>
        \A k \in DOMAIN sections :
            (~Filters[k] /\ sections[k] # <<>>) =>
                LET shown == split_sections(final_text)
                IN  k \notin DOMAIN shown \/ shown[k] = <<>>

\* C7: splitting the reassembled filtered output again gives, for every
\* category selected and included in it, the body the first split gave.
C7_ResplitSameBodies ==
    (pc = "Rendering" /\ collected(Filters, sections) # <<>>) =>
        \A k \in Categories :
            Takes(Filters, sections, k) =>
                LET again == split_sections(final_text)
                IN  k \in DOMAIN again /\ again[k] = sections[k]

\* the order of the sections in the summary
FixedOrder == <<"meds", "orders", "ptot", "cm", "brief">>

\* "heading\nbody" for each category of ks, joined by blank lines
SectionsText(ks) ==
    Join([i \in 1..Len(ks) |-> CanonicalHeading(ks[i]) \o <<"\n">> \o sections[ks[i]]],
         <<"\n", "\n">>)

AllPresentSelected == \A k \in DOMAIN sections : Filters[k]

IsPresent(k) == k \in DOMAIN sections

HasBody(k) == k \in DOMAIN sections /\ sections[k] # <<>>

\* toggling the box of a category that is not in the response changes nothing
AbsentFilterIrrelevant ==
    \A a \in Categories \ DOMAIN sections :
        FinalText([Filters EXCEPT ![a] = ~Filters[a]], sections, output_md) = final_text

\* C8 as stated: with the boxes of all present categories ticked, the output is
\* one section for each category present in the response, in the fixed order
\* (looked at where some section is displayed, not the raw response).
C8_OneSectionPerPresent ==
    (pc = "Rendering" /\ AllPresentSelected /\ \E k \in Categories : HasBody(k)) =>
        /\ final_text = Strip(SectionsText(SelectSeq(FixedOrder, IsPresent)))
        /\ AbsentFilterIrrelevant

\* C8 amended: with the boxes of all present categories ticked, the output is
\* one section for each category whose parsed body is not empty, in the fixed
\* order whatever the order in the response, and the raw response if there is
\* none; the box of an absent category has no effect.
C8_OneSectionPerNonEmpty ==
    (pc = "Rendering" /\ AllPresentSelected) =>
        /\ final_text = (IF SelectSeq(FixedOrder, HasBody) = <<>>
                         THEN output_md
                         ELSE SectionsText(SelectSeq(FixedOrder, HasBody)))
        /\ AbsentFilterIrrelevant

\* C8 witness: Plan before Medications in the response, both with a body, the
\* box of the absent PT/OT not ticked: Medications comes first in the output.
C8_Witness ==
    /\ pc = "Rendering"
    /\ AllPresentSelected
    /\ ~f_ptot
    /\ HasBody("meds") /\ HasBody("orders")
    /\ LET lines == splitlines(output_md)
       IN  \E i, j \in 1..Len(lines) :
            i < j /\ HeadingKey(lines[i]) = "orders" /\ HeadingKey(lines[j]) = "meds"
    /\ StartsWith(final_text, CanonicalHeading("meds"))

\* C13: in single-note mode, selecting the example made for that mode fills
\* the note field with the example's note text, its first element, so that
\* the note is not empty and a following Run passes the input precondition.
C13_SingleExampleLoads ==
    [][(/\ mode = Single
        /\ mode' = Single
        /\ choice # SingleExample
        /\ choice' = SingleExample)
            => (/\ note_b' = EXAMPLES[SingleExample][1]
                /\ note_b' # "")]_vars

(***************************************************************************)
(* Properties of the highlighter (SpecHL).                                 *)
(***************************************************************************)
\* the number of marker spans opened in an output
RECURSIVE CountSpans(_)
CountSpans(out) ==
    IF out = <<>> THEN 0
    ELSE (IF Head(out) = MarkOpen THEN 1 ELSE 0) + CountSpans(Tail(out))

\* C3: the match count equals the number of marker spans inserted.
C3_HitsEqualSpans ==
    hl_pc = "shown" => hits = CountSpans(highlighted)

\* for each character of the escaped text of an output, in order, whether it
\* is inside a marker span
RECURSIVE InsideSpan(_, _)
InsideSpan(out, inside) ==
    IF out = <<>> THEN <<>>
    ELSE IF Head(out) = MarkOpen THEN InsideSpan(Tail(out), TRUE)
    ELSE IF Head(out) = MarkClose THEN InsideSpan(Tail(out), FALSE)
    ELSE IF Head(out) \in {"<pre>", "</pre>"} THEN InsideSpan(Tail(out), inside)
    ELSE <<inside>> \o InsideSpan(Tail(out), inside)

\* the position in escape(text) of the character at position i of text
EscapedPos(text, i) == Len(escape(SubSeq(text, 1, i - 1))) + 1

\* tok occurs in text at position i, letter case ignored
OccursAt(text, tok, i) ==
    /\ i + Len(tok) - 1 <= Len(text)
    /\ Lower(SubSeq(text, i, i + Len(tok) - 1)) = Lower(tok)

\* C6: every character of every occurrence in the text of a token of the
\* query is inside a marker span of the output.
C6_EveryOccurrenceMarked ==
    hl_pc = "shown" =>
        LET tokens == QueryTokens(search_query)
            inside == InsideSpan(highlighted, FALSE)
        IN  \A t \in 1..Len(tokens) :
                \A i \in 1..Len(search_text) :
                    OccursAt(search_text, tokens[t], i) =>
                        \A j \in i..(i + Len(tokens[t]) - 1) :
                            inside[EscapedPos(search_text, j)]

\* a query that is empty or made of white space only
IsBlank(query) == \A i \in 1..Len(query) : IsSpace(query[i])

\* C11: for an empty or whitespace-only query, and for an empty text with any
\* query, the output is the escaped text in its pre block with no marker span,
\* and the match count is 0.
C11_BlankQueryUnchanged ==
    (hl_pc = "shown" /\ (IsBlank(search_query) \/ search_text = <<>>)) =>
        /\ highlighted = <<"<pre>">> \o escape(search_text) \o <<"</pre>">>
        /\ CountSpans(highlighted) = 0
        /\ hits = 0

\* C11 witness: a whitespace-only query on a text that escaping rewrites.
C11_Witness ==
    /\ hl_pc = "shown"
    /\ search_query = <<" ", " ">>
    /\ search_text = <<"a", "&">>
    /\ highlighted = <<"<pre>", "a", "&", "a", "m", "p", ";", "</pre>">>
    /\ hits = 0

(***************************************************************************)
(* Properties of the PDF renderer (SpecPdf).                               *)
(***************************************************************************)
\* C9: no line drawn is wider than the usable width of the page.
C9_LinesFit ==
    pdf_pc = "done" =>
        \A i \in 1..Len(pdf_drawn) : stringWidth(pdf_drawn[i].text) <= max_width

\* the words of a string: its maximal runs of characters that are not white
RECURSIVE WordsOf(_, _)
WordsOf(s, cur) ==
    IF s = <<>> THEN (IF cur = <<>> THEN <<>> ELSE <<cur>>)
    ELSE IF IsSpace(Head(s))
    THEN (IF cur = <<>> THEN <<>> ELSE <<cur>>) \o WordsOf(Tail(s), <<>>)
    ELSE WordsOf(Tail(s), Append(cur, Head(s)))

\* the words of the lines drawn, in the order drawn
RECURSIVE DrawnWords(_)
DrawnWords(drawn) ==
    IF drawn = <<>> THEN <<>>
    ELSE WordsOf(Head(drawn).text, <<>>) \o DrawnWords(Tail(drawn))

\* a line drawn later is on a later page, or lower on the same page
ReadingOrder(drawn) ==
    \A i, j \in 1..Len(drawn) :
        i < j => \/ drawn[i].page < drawn[j].page
                 \/ drawn[i].page = drawn[j].page /\ drawn[i].y > drawn[j].y

\* C10: the words of the lines drawn, in the order drawn, are the words of the
\* input, none dropped, repeated or moved, and the lines are drawn in reading
\* order over line wraps and page breaks.
C10_WordsPreserved ==
    pdf_pc = "done" =>
        /\ DrawnWords(pdf_drawn) = WordsOf(pdf_text, <<>>)
        /\ ReadingOrder(pdf_drawn)

\* C10 witness: a line of the input was wrapped and a word was drawn after a
\* page break.
C10_Witness ==
    /\ pdf_pc = "done"
    /\ Len(pdf_drawn) > Len(splitlines(pdf_text))
    /\ \E i \in 1..Len(pdf_drawn) : pdf_drawn[i].page > 1 /\ pdf_drawn[i].text # <<>>

====
